---- MODULE Spec2Model ----
(***************************************************************************)
(* Model of the matching core of rs_trader (src/src/main.py): the          *)
(* in-memory order store JsonDatabase and the matching engine Exchange.    *)
(*                                                                         *)
(* The store is the class attribute JsonDatabase.db, a dictionary of three *)
(* lists.  Every store method is an operator from a store value to a store *)
(* value (or to a query result); Exchange.place_order is one action that   *)
(* runs the whole call, as the program is single-threaded and synchronous. *)
(*                                                                         *)
(* OrderPart.executed_at (datetime.now()) is left out of the part record:  *)
(* no operation of the program reads it.                                   *)
(***************************************************************************)
EXTENDS Integers, Sequences, FiniteSets, TLC

\* Bounds of the model.
MaxOrders == 3
MaxQuantity == 2
MaxPrice == 2
MaxItem == 2

VARIABLES
    db,     \* JsonDatabase.db: [orders, order_parts, order_links], three lists
    call,   \* the last call made on the program: its name, arguments, the
            \* store before it, and what it returned or raised
    tasks   \* the place_order calls in progress on one shared store, each
            \* with its position in the code and its local variables

vars == <<db, call, tasks>>

-----------------------------------------------------------------------------
(* Python values.  A value carries its type, so that == between values of  *)
(* different types is False, as in Python (1 == "1" is False).             *)

PyInt(n) == [kind |-> "int", val |-> n]
PyUUID(n) == [kind |-> "UUID", val |-> n]
\* str(v): the text of v.  The text of an int or of a UUID is a str and is
\* equal only to the text of the same value.
PyStr(v) == [kind |-> "str", val |-> v]

\* Optional[T] arguments: None, or a value.
None == <<>>
Some(v) == <<v>>

\* OrderType and OrderStatus enumerations.
BUY == "BUY"
SELL == "SELL"
OPEN == "OPEN"
CLOSED == "CLOSED"
OrderType == {BUY, SELL}
OrderStatus == {OPEN, CLOSED}

\* An Order as constructed by the caller: order_status defaults to OPEN.
Order(order_id, user_id, item_id, order_type, quantity, price) ==
    [order_id |-> order_id, user_id |-> user_id, item_id |-> item_id,
     order_type |-> order_type, quantity |-> quantity, price |-> price,
     order_status |-> OPEN]

OrderPart(order_part_id, quantity, price) ==
    [order_part_id |-> order_part_id, quantity |-> quantity, price |-> price]

OrderLink(order_id, order_part_id) ==
    [order_id |-> order_id, order_part_id |-> order_part_id]

\* Identifiers are generated (uuid4): each is new.  The n-th order and the
\* k-th part get distinct identifiers.
NewOrderId(d) == PyUUID(<<"order", Len(d.orders) + 1>>)
NewOrderPartId(d) == PyUUID(<<"part", Len(d.order_parts) + 1>>)

Min(a, b) == IF a <= b THEN a ELSE b

RECURSIVE SumQuantity(_)
\* sum([o.quantity for o in parts])
SumQuantity(parts) ==
    IF parts = <<>> THEN 0
    ELSE Head(parts).quantity + SumQuantity(Tail(parts))

-----------------------------------------------------------------------------
(* JsonDatabase *)

add_order(d, order) == [d EXCEPT !.orders = Append(@, order)]

\* get_orders without the order_type condition.
get_orders_any_type(d, order_id, item_id, user_id, order_type, status, max_price, min_price) ==
    SelectSeq(d.orders, LAMBDA order:
        /\ (order_id = None \/ order.order_id = order_id[1])
        /\ (item_id = None \/ order.item_id = item_id[1])
        /\ (user_id = None \/ order.user_id = user_id[1])
        /\ (status = None \/ order.order_status = status[1])
        /\ (max_price = None \/ order.price <= max_price[1])
        /\ (min_price = None \/ order.price >= min_price[1]))

\* get_orders without the max_price condition.
get_orders_no_max_price(d, order_id, item_id, user_id, order_type, status, max_price, min_price) ==
    SelectSeq(d.orders, LAMBDA order:
        /\ (order_id = None \/ order.order_id = order_id[1])
        /\ (item_id = None \/ order.item_id = item_id[1])
        /\ (user_id = None \/ order.user_id = user_id[1])
        /\ (order_type = None \/ order.order_type = order_type[1])
        /\ (status = None \/ order.order_status = status[1])
        /\ (min_price = None \/ order.price >= min_price[1]))

\* get_orders without the item_id condition.
get_orders_any_item(d, order_id, item_id, user_id, order_type, status, max_price, min_price) ==
    SelectSeq(d.orders, LAMBDA order:
        /\ (order_id = None \/ order.order_id = order_id[1])
        /\ (user_id = None \/ order.user_id = user_id[1])
        /\ (order_type = None \/ order.order_type = order_type[1])
        /\ (status = None \/ order.order_status = status[1])
        /\ (max_price = None \/ order.price <= max_price[1])
        /\ (min_price = None \/ order.price >= min_price[1]))

get_orders(d, order_id, item_id, user_id, order_type, status, max_price, min_price) ==
    SelectSeq(d.orders, LAMBDA order:
        /\ (order_id = None \/ order.order_id = order_id[1])
        /\ (item_id = None \/ order.item_id = item_id[1])
        /\ (user_id = None \/ order.user_id = user_id[1])
        /\ (order_type = None \/ order.order_type = order_type[1])
        /\ (status = None \/ order.order_status = status[1])
        /\ (max_price = None \/ order.price <= max_price[1])
        /\ (min_price = None \/ order.price >= min_price[1]))

get_order_parts(d, order_id, order_part_id) ==
    LET linked == SelectSeq(d.order_links, LAMBDA link:
                      order_id = None \/ link.order_id = order_id[1])
        order_links == {linked[i].order_part_id : i \in 1..Len(linked)}
    IN  SelectSeq(d.order_parts, LAMBDA part:
            \/ part.order_part_id \in order_links
            \/ (order_part_id # None /\ part.order_part_id = order_part_id[1]))

\* get_order_remaining_quantity that does not subtract the filled quantity.
get_order_remaining_quantity_unfilled(d, order_id) ==
    LET found == get_orders(d, Some(order_id), None, None, None, None, None, None)
    IN  found[1].quantity

\* Defined when an order with this order_id is stored (orders[0] otherwise
\* raises IndexError).
get_order_remaining_quantity(d, order_id) ==
    LET found == get_orders(d, Some(order_id), None, None, None, None, None, None)
        order == found[1]
        order_part_ids == get_order_parts(d, Some(order_id), None)
        filled_quantity == SumQuantity(order_part_ids)
    IN  order.quantity - filled_quantity

\* update_order_status that compares each stored order's order_id with
\* order_id.
update_order_status_by_order_id(d, order_id, status) ==
    LET hits == {i \in 1..Len(d.orders) : d.orders[i].order_id = order_id}
    IN  IF hits = {} THEN d
        ELSE LET first == CHOOSE i \in hits : \A j \in hits : i <= j
             IN  [d EXCEPT !.orders[first].order_status = status]

\* The loop compares each stored order's user_id with str(order_id) and
\* sets the status of the first one that is equal.
update_order_status(d, order_id, status) ==
    LET hits == {i \in 1..Len(d.orders) : d.orders[i].user_id = PyStr(order_id)}
    IN  IF hits = {} THEN d
        ELSE LET first == CHOOSE i \in hits : \A j \in hits : i <= j
             IN  [d EXCEPT !.orders[first].order_status = status]

\* add_order_part that replaces the list by the new part.
add_order_part_replacing(d, order_part) == [d EXCEPT !.order_parts = <<order_part>>]

add_order_part(d, order_part) == [d EXCEPT !.order_parts = Append(@, order_part)]

add_order_link(d, order_link) == [d EXCEPT !.order_links = Append(@, order_link)]

\* A call of a query as its caller sees it: the store after the call, the
\* exception raised ("" when the call returned) and the value returned.
\* No query has a statement that writes to self.db.

\* get_orders that keeps only the selected orders in the store.
call_get_orders_in_place(d, f) ==
    [db |-> [d EXCEPT !.orders = get_orders(d, f[1], f[2], f[3], f[4], f[5], f[6], f[7])],
     raised |-> "",
     value |-> Some(get_orders(d, f[1], f[2], f[3], f[4], f[5], f[6], f[7]))]

\* f: the seven filters, in the order of the parameters.
call_get_orders(d, f) ==
    [db |-> d, raised |-> "",
     value |-> Some(get_orders(d, f[1], f[2], f[3], f[4], f[5], f[6], f[7]))]

call_get_order_parts(d, order_id, order_part_id) ==
    [db |-> d, raised |-> "",
     value |-> Some(get_order_parts(d, order_id, order_part_id))]

\* get_order_remaining_quantity that returns the quantity of an order that
\* is not stored as 0 instead of failing.
call_get_order_remaining_quantity_default(d, order_id) ==
    IF get_orders(d, Some(order_id), None, None, None, None, None, None) = <<>>
    THEN [db |-> d, raised |-> "", value |-> Some(0)]
    ELSE [db |-> d, raised |-> "",
          value |-> Some(get_order_remaining_quantity(d, order_id))]

\* orders[0] raises IndexError when no order has this order_id.
call_get_order_remaining_quantity(d, order_id) ==
    IF get_orders(d, Some(order_id), None, None, None, None, None, None) = <<>>
    THEN [db |-> d, raised |-> "IndexError", value |-> None]
    ELSE [db |-> d, raised |-> "",
          value |-> Some(get_order_remaining_quantity(d, order_id))]

-----------------------------------------------------------------------------
(* Exchange *)

RECURSIVE InsertByPrice(_, _)
\* o goes after every element whose price is <= its own: equal prices keep
\* their order.
InsertByPrice(sorted, o) ==
    IF sorted = <<>> THEN <<o>>
    ELSE IF Head(sorted).price <= o.price
         THEN <<Head(sorted)>> \o InsertByPrice(Tail(sorted), o)
         ELSE <<o>> \o sorted

\* SortByPrice that leaves the list in store order.
SortByPrice_unsorted(s) == s

RECURSIVE SortByPrice(_)
\* list.sort(key=lambda o: o.price): ascending and stable.
SortByPrice(s) ==
    IF s = <<>> THEN <<>>
    ELSE InsertByPrice(SortByPrice(SubSeq(s, 1, Len(s) - 1)), s[Len(s)])

\* fill_quantity without the min: the whole remaining quantity is filled.
fill_quantity_unbounded(remaining_quantity, match_quantity) ==
    remaining_quantity

fill_quantity(remaining_quantity, match_quantity) ==
    Min(remaining_quantity, match_quantity)

\* new_order_part with the price of the incoming order.
new_order_part_at_primary_price(d, primary_order, match, fill) ==
    OrderPart(NewOrderPartId(d), fill, primary_order.price)

\* The OrderPart of one fill (lines 138-142): a new id, the quantity filled
\* and the price of the matched order.
new_order_part(d, primary_order, match, fill) ==
    OrderPart(NewOrderPartId(d), fill, match.price)

RECURSIVE FulfillLoop(_, _, _, _, _)
\* The for loop of _fulfill_order from its i-th candidate on; the result is
\* the store and remaining_quantity when the loop is left.
FulfillLoop(d, primary_order, matching_orders, i, remaining_quantity) ==
    IF i > Len(matching_orders) \/ remaining_quantity <= 0
    THEN [db |-> d, remaining_quantity |-> remaining_quantity]
    ELSE LET match == matching_orders[i]
             match_quantity == get_order_remaining_quantity(d, match.order_id)
             fill == fill_quantity(remaining_quantity, match_quantity)
             order_part == new_order_part(d, primary_order, match, fill)
             d1 == add_order_part(d, order_part)
             d2 == add_order_link(d1,
                       OrderLink(primary_order.order_id, order_part.order_part_id))
             d3 == add_order_link(d2,
                       OrderLink(match.order_id, order_part.order_part_id))
             d4 == IF match.quantity = fill
                   THEN update_order_status(d3, match.order_id, CLOSED)
                   ELSE d3
         IN  FulfillLoop(d4, primary_order, matching_orders, i + 1,
                         remaining_quantity - fill)

\* _fulfill_order that also writes the remaining quantity to the stored
\* order.
_fulfill_order_persisting(d, primary_order, matching_orders) ==
    LET r == FulfillLoop(d, primary_order, matching_orders, 1,
                         primary_order.quantity)
    IN  IF r.remaining_quantity = 0
        THEN [db |-> update_order_status(r.db, primary_order.user_id, CLOSED),
              order |-> primary_order]
        ELSE [db |-> [r.db EXCEPT !.orders[Len(r.db.orders)].quantity =
                                      r.remaining_quantity],
              order |-> [primary_order EXCEPT !.quantity = r.remaining_quantity]]

\* The result is the store and the caller's order object after the call.
_fulfill_order(d, primary_order, matching_orders) ==
    LET r == FulfillLoop(d, primary_order, matching_orders, 1,
                         primary_order.quantity)
    IN  IF r.remaining_quantity = 0
        THEN [db |-> update_order_status(r.db, primary_order.user_id, CLOSED),
              order |-> primary_order]
        ELSE [db |-> r.db,
              order |-> [primary_order EXCEPT !.quantity = r.remaining_quantity]]

open_sell_orders(d, buy_order) ==
    SortByPrice(get_orders(d, None, Some(buy_order.item_id), None, Some(SELL),
                           Some(OPEN), Some(buy_order.price), None))

open_buy_orders(d, sell_order) ==
    SortByPrice(get_orders(d, None, Some(sell_order.item_id), None, Some(BUY),
                           Some(OPEN), None, Some(sell_order.price)))

match_buy_order(d, buy_order) ==
    _fulfill_order(d, buy_order, open_sell_orders(d, buy_order))

match_sell_order(d, sell_order) ==
    _fulfill_order(d, sell_order, open_buy_orders(d, sell_order))

place_order(d, order) ==
    LET d1 == add_order(d, order)
    IN  IF order.order_type = BUY THEN match_buy_order(d1, order)
        ELSE IF order.order_type = SELL THEN match_sell_order(d1, order)
        ELSE [db |-> d1, order |-> order]

-----------------------------------------------------------------------------
(* The state machine *)

EmptyDb == [orders |-> <<>>, order_parts |-> <<>>, order_links |-> <<>>]

\* The record of a call: op its name, args its arguments, pre the store
\* before it, raised the exception it raised ("" when it returned), value
\* what it returned (None for a procedure), order the caller's Order object
\* after the call (None when the call takes no Order).
Call(op, args, pre, raised, value, order) ==
    [op |-> op, args |-> args, pre |-> pre, raised |-> raised,
     value |-> value, order |-> order]

\* The two callers whose place_order calls may overlap.
Tasks == {1, 2}

\* A caller that has not called place_order yet.
IdleTask ==
    [pc |-> "idle", order |-> None, matching_orders |-> <<>>, i |-> 0,
     remaining_quantity |-> 0, fill_quantity |-> 0, order_part |-> None,
     reads |-> <<>>]

Init ==
    /\ db = EmptyDb
    /\ call = Call("none", <<>>, EmptyDb, "", None, None)
    /\ tasks = [t \in Tasks |-> IdleTask]

\* Each order is placed by a new user, as in the driver (user_id=1, 2, 3, 4).
NewUserId(d) == PyInt(Len(d.orders) + 1)

\* The item_ids a caller may use: those of the stored orders and the next
\* unused one.  The program only compares item_ids for equality, so which
\* number a new item has makes no difference.
ItemIds(d) ==
    LET used == {d.orders[i].item_id : i \in 1..Len(d.orders)}
    IN  1..Min(MaxItem, Cardinality(used) + 1)

\* A caller builds a valid Order (quantity > 0), of an item among items and
\* with a price among prices, and places it, once.
PlaceOrderAt(items, prices) ==
    /\ Len(db.orders) < MaxOrders
    /\ \E item \in items, type \in OrderType,
          quantity \in 1..MaxQuantity, price \in prices :
          LET order == Order(NewOrderId(db), NewUserId(db), item, type,
                             quantity, price)
              r == place_order(db, order)
          IN  /\ db' = r.db
              /\ call' = Call("place_order", <<order>>, db, "", None,
                              Some(r.order))
              /\ UNCHANGED tasks

PlaceOrder == PlaceOrderAt(ItemIds(db), 1..MaxPrice)

\* The order_ids a caller may pass to the store: those of the stored orders
\* and one that no stored order has.
UnknownOrderId == PyUUID(<<"order", 0>>)
OrderIds == {db.orders[i].order_id : i \in 1..Len(db.orders)} \cup {UnknownOrderId}

\* A direct call of JsonDatabase.update_order_status.  The method has no
\* raise statement and no lookup that can fail: it always returns None.
UpdateOrderStatus ==
    \E order_id \in OrderIds, status \in OrderStatus :
        /\ db' = update_order_status(db, order_id, status)
        /\ call' = Call("update_order_status", <<order_id, status>>, db, "",
                        None, None)
        /\ UNCHANGED tasks

Next == PlaceOrder

\* Callers that only place orders, one call at a time.
Spec == Init /\ [][Next]_vars

NextStore ==
    \/ PlaceOrder
    \/ UpdateOrderStatus

\* Callers that place orders and also call the store directly.
SpecStore == Init /\ [][NextStore]_vars

\* The order_part_ids a caller may pass: those of the stored parts and one
\* that no stored part has.
UnknownOrderPartId == PyUUID(<<"part", 0>>)
OrderPartIds ==
    {db.order_parts[k].order_part_id : k \in 1..Len(db.order_parts)}
        \cup {UnknownOrderPartId}

NoFilter == <<None, None, None, None, None, None, None>>

\* The filters a caller passes to get_orders: none, an order_id alone, a
\* status alone, and those of the matching engine for each stored order
\* (lines 100-105 and 111-116).
Filters ==
    {NoFilter}
        \cup {[NoFilter EXCEPT ![1] = Some(order_id)] : order_id \in OrderIds}
        \cup {[NoFilter EXCEPT ![5] = Some(status)] : status \in OrderStatus}
        \cup {IF db.orders[i].order_type = BUY
              THEN <<None, Some(db.orders[i].item_id), None, Some(SELL),
                     Some(OPEN), Some(db.orders[i].price), None>>
              ELSE <<None, Some(db.orders[i].item_id), None, Some(BUY),
                     Some(OPEN), None, Some(db.orders[i].price)>> :
              i \in 1..Len(db.orders)}

\* A direct call of JsonDatabase.get_orders.
GetOrders ==
    \E f \in Filters :
        LET r == call_get_orders(db, f)
        IN  /\ db' = r.db
            /\ call' = Call("get_orders", f, db, r.raised, r.value, None)
            /\ UNCHANGED tasks

\* A direct call of JsonDatabase.get_order_parts with one argument or none.
GetOrderParts ==
    \E order_id \in {None} \cup {Some(o) : o \in OrderIds},
       order_part_id \in {None} \cup {Some(p) : p \in OrderPartIds} :
        /\ order_id = None \/ order_part_id = None
        /\ LET r == call_get_order_parts(db, order_id, order_part_id)
           IN  /\ db' = r.db
               /\ call' = Call("get_order_parts", <<order_id, order_part_id>>,
                               db, r.raised, r.value, None)
               /\ UNCHANGED tasks

\* A direct call of JsonDatabase.get_order_remaining_quantity.
GetOrderRemainingQuantity ==
    \E order_id \in OrderIds :
        LET r == call_get_order_remaining_quantity(db, order_id)
        IN  /\ db' = r.db
            /\ call' = Call("get_order_remaining_quantity", <<order_id>>, db,
                            r.raised, r.value, None)
            /\ UNCHANGED tasks

\* Orders of one item placed at one price: every resting order of the other
\* side is within the limit.
PlaceOrderAtPar == PlaceOrderAt({1}, {1})

NextStoreAtPar ==
    \/ PlaceOrderAtPar
    \/ UpdateOrderStatus

\* Callers that place orders of one item at one price and also call
\* update_order_status directly.
SpecStoreAtPar == Init /\ [][NextStoreAtPar]_vars

NextQuery ==
    \/ PlaceOrderAtPar
    \/ GetOrders
    \/ GetOrderParts
    \/ GetOrderRemainingQuantity

\* Callers that place orders, all of one item at one price, and query the
\* store.
SpecQuery == Init /\ [][NextQuery]_vars

-----------------------------------------------------------------------------
(* place_order calls that share the store and are interleaved between two   *)
(* store operations.  The code takes no lock and keeps remaining_quantity,  *)
(* match_quantity and fill_quantity in local variables.                     *)

\* The calls made before the concurrent ones, one at a time.
PlaceOrderBefore ==
    /\ \A t \in Tasks : tasks[t].pc = "idle"
    /\ PlaceOrderAtPar

\* place_order up to the return of add_order.  The callers are alike, so
\* they start in the order of their numbers.
BeginPlaceOrder(t) ==
    /\ tasks[t].pc = "idle"
    /\ \A u \in Tasks : u < t => tasks[u].pc # "idle"
    /\ Len(db.orders) < MaxOrders
    /\ \E type \in OrderType, quantity \in 1..MaxQuantity :
          LET order == Order(NewOrderId(db), NewUserId(db), 1, type,
                             quantity, 1)
          IN  /\ db' = add_order(db, order)
              /\ tasks' = [tasks EXCEPT ![t] =
                              [@ EXCEPT !.pc = "match", !.order = Some(order)]]
    /\ UNCHANGED call

\* match_buy_order or match_sell_order up to the call of _fulfill_order,
\* and the first statement of _fulfill_order.
MatchOrders(t) ==
    /\ tasks[t].pc = "match"
    /\ LET order == tasks[t].order[1]
           matching_orders == IF order.order_type = BUY
                              THEN open_sell_orders(db, order)
                              ELSE open_buy_orders(db, order)
       IN  tasks' = [tasks EXCEPT ![t] =
                        [@ EXCEPT !.pc = "loop",
                                  !.matching_orders = matching_orders,
                                  !.i = 1,
                                  !.remaining_quantity = order.quantity]]
    /\ UNCHANGED <<db, call>>

\* The loop of _fulfill_order goes on with its next candidate.
InLoop(task) ==
    /\ task.i <= Len(task.matching_orders)
    /\ task.remaining_quantity > 0

\* The head of the loop body: get_order_remaining_quantity, then
\* fill_quantity and remaining_quantity.
ReadRemainingQuantity(t) ==
    /\ tasks[t].pc = "loop"
    /\ InLoop(tasks[t])
    /\ LET match == tasks[t].matching_orders[tasks[t].i]
           match_quantity == get_order_remaining_quantity(db, match.order_id)
           fill == fill_quantity(tasks[t].remaining_quantity, match_quantity)
       IN  tasks' = [tasks EXCEPT ![t] =
                        [@ EXCEPT !.pc = "part",
                                  !.fill_quantity = fill,
                                  !.remaining_quantity = @ - fill,
                                  !.reads = Append(@, <<match.order_id,
                                                        match_quantity>>)]]
    /\ UNCHANGED <<db, call>>

\* OrderPart(...) and add_order_part.
WriteOrderPart(t) ==
    /\ tasks[t].pc = "part"
    /\ LET match == tasks[t].matching_orders[tasks[t].i]
           order_part == new_order_part(db, tasks[t].order[1], match,
                                        tasks[t].fill_quantity)
       IN  /\ db' = add_order_part(db, order_part)
           /\ tasks' = [tasks EXCEPT ![t] =
                           [@ EXCEPT !.pc = "link_primary",
                                     !.order_part = Some(order_part)]]
    /\ UNCHANGED call

\* add_order_link of the part to the primary order.
WriteLinkPrimary(t) ==
    /\ tasks[t].pc = "link_primary"
    /\ db' = add_order_link(db, OrderLink(tasks[t].order[1].order_id,
                                          tasks[t].order_part[1].order_part_id))
    /\ tasks' = [tasks EXCEPT ![t] = [@ EXCEPT !.pc = "link_match"]]
    /\ UNCHANGED call

\* add_order_link of the part to the matched order.
WriteLinkMatch(t) ==
    /\ tasks[t].pc = "link_match"
    /\ LET match == tasks[t].matching_orders[tasks[t].i]
       IN  db' = add_order_link(db, OrderLink(match.order_id,
                                     tasks[t].order_part[1].order_part_id))
    /\ tasks' = [tasks EXCEPT ![t] = [@ EXCEPT !.pc = "status"]]
    /\ UNCHANGED call

\* The end of the loop body: update_order_status of the matched order when
\* its quantity equals the fill.
UpdateMatchStatus(t) ==
    /\ tasks[t].pc = "status"
    /\ LET match == tasks[t].matching_orders[tasks[t].i]
       IN  db' = IF match.quantity = tasks[t].fill_quantity
                 THEN update_order_status(db, match.order_id, CLOSED)
                 ELSE db
    /\ tasks' = [tasks EXCEPT ![t] =
                    [@ EXCEPT !.pc = "loop", !.i = @ + 1,
                              !.fill_quantity = 0, !.order_part = None]]
    /\ UNCHANGED call

\* The statements after the loop; place_order returns.
FinishPlaceOrder(t) ==
    /\ tasks[t].pc = "loop"
    /\ ~InLoop(tasks[t])
    /\ LET primary_order == tasks[t].order[1]
       IN  IF tasks[t].remaining_quantity = 0
           THEN /\ db' = update_order_status(db, primary_order.user_id, CLOSED)
                /\ tasks' = [tasks EXCEPT ![t] =
                                [@ EXCEPT !.pc = "done",
                                          !.matching_orders = <<>>, !.i = 0]]
           ELSE /\ db' = db
                /\ tasks' = [tasks EXCEPT ![t] =
                                [@ EXCEPT !.pc = "done",
                                          !.matching_orders = <<>>, !.i = 0,
                                          !.order = Some([primary_order EXCEPT
                                              !.quantity =
                                                  tasks[t].remaining_quantity])]]
    /\ UNCHANGED call

NextConcurrent ==
    \/ PlaceOrderBefore
    \/ \E t \in Tasks : BeginPlaceOrder(t)
    \/ \E t \in Tasks : MatchOrders(t)
    \/ \E t \in Tasks : ReadRemainingQuantity(t)
    \/ \E t \in Tasks : WriteOrderPart(t)
    \/ \E t \in Tasks : WriteLinkPrimary(t)
    \/ \E t \in Tasks : WriteLinkMatch(t)
    \/ \E t \in Tasks : UpdateMatchStatus(t)
    \/ \E t \in Tasks : FinishPlaceOrder(t)

\* Callers whose place_order calls on one store overlap.
SpecConcurrent == Init /\ [][NextConcurrent]_vars

-----------------------------------------------------------------------------
(* Vocabulary of the properties *)

IndexOf(d, order_id) ==
    CHOOSE i \in 1..Len(d.orders) : d.orders[i].order_id = order_id

HasOrder(d, order_id) ==
    \E i \in 1..Len(d.orders) : d.orders[i].order_id = order_id

\* The indices of the links that reference a part.
LinksOfPart(d, order_part_id) ==
    {i \in 1..Len(d.order_links) : d.order_links[i].order_part_id = order_part_id}

\* Sum of the quantities of the OrderParts linked to an order.
Filled(d, order_id) ==
    SumQuantity(SelectSeq(d.order_parts, LAMBDA part :
        \E i \in LinksOfPart(d, part.order_part_id) :
            d.order_links[i].order_id = order_id))

Remaining(d, order) == order.quantity - Filled(d, order.order_id)

\* The resting orders an incoming order may be matched against: OPEN, of the
\* opposite side, of the same item, within the incoming order's limit.
Eligible(d, order) ==
    SelectSeq(d.orders, LAMBDA resting :
        /\ resting.order_status = OPEN
        /\ resting.item_id = order.item_id
        /\ resting.order_type # order.order_type
        /\ (order.order_type = BUY => resting.price <= order.price)
        /\ (order.order_type = SELL => resting.price >= order.price))

RECURSIVE SumRemaining(_, _)
SumRemaining(d, os) ==
    IF os = <<>> THEN 0
    ELSE Remaining(d, Head(os)) + SumRemaining(d, Tail(os))

\* The parts the last call appended.
PartsCreated == SubSeq(db.order_parts, Len(call.pre.order_parts) + 1,
                       Len(db.order_parts))

Placed == call.op = "place_order"
PlacedOrder == call.args[1]

-----------------------------------------------------------------------------
(* Properties *)

\* C1: after any sequence of place_order calls, the quantities of the
\* OrderParts linked to a stored order sum to at least 0 and at most the
\* order's quantity: no order is overfilled.
C1_NoOverfill ==
    \A i \in 1..Len(db.orders) :
        /\ 0 <= Filled(db, db.orders[i].order_id)
        /\ Filled(db, db.orders[i].order_id) <= db.orders[i].quantity

\* Three orders are stored, one partly filled and one filled completely.
C1_Witness ==
    /\ Len(db.orders) = 3
    /\ \E i \in 1..Len(db.orders) :
          /\ 0 < Filled(db, db.orders[i].order_id)
          /\ Filled(db, db.orders[i].order_id) < db.orders[i].quantity
    /\ \E i \in 1..Len(db.orders) :
          Filled(db, db.orders[i].order_id) = db.orders[i].quantity

\* C2: when a place_order call has returned, a stored order is CLOSED if
\* and only if its remaining quantity is 0, and OPEN otherwise.
C2_ClosedIffNothingRemains ==
    Placed =>
        \A i \in 1..Len(db.orders) :
            /\ db.orders[i].order_status \in OrderStatus
            /\ db.orders[i].order_status = CLOSED
                   <=> Remaining(db, db.orders[i]) = 0

\* C3: an order whose remaining quantity a fill of the place_order call
\* brought to zero (the incoming order, or a resting order that had quantity
\* left before the call) is CLOSED once the call has returned.
C3_FilledOrderIsClosed ==
    Placed =>
        \A i \in 1..Len(db.orders) :
            LET order == db.orders[i]
                before == IF HasOrder(call.pre, order.order_id)
                          THEN Remaining(call.pre, order)
                          ELSE order.quantity
            IN  (before > 0 /\ Remaining(db, order) = 0)
                    => order.order_status = CLOSED

\* C4: update_order_status called with the order_id of a stored order sets
\* the status of the order that has this order_id, and of no other order.
C4_UpdateKeyedOnOrderId ==
    (call.op = "update_order_status" /\ HasOrder(call.pre, call.args[1])) =>
        db = [call.pre EXCEPT
                 !.orders[IndexOf(call.pre, call.args[1])].order_status =
                     call.args[2]]

\* C5: every OrderPart has exactly two OrderLinks, and they point to two
\* different stored orders of opposite order_type.
C5_TwoLinksOppositeOrders ==
    \A k \in 1..Len(db.order_parts) :
        LET links == LinksOfPart(db, db.order_parts[k].order_part_id)
        IN  /\ Cardinality(links) = 2
            /\ \E i, j \in links :
                  LET a == db.order_links[i].order_id
                      b == db.order_links[j].order_id
                  IN  /\ i # j
                      /\ a # b
                      /\ HasOrder(db, a)
                      /\ HasOrder(db, b)
                      /\ db.orders[IndexOf(db, a)].order_type = BUY
                      /\ db.orders[IndexOf(db, b)].order_type = SELL

\* Parts were created by a BUY placed against a SELL and by a SELL placed
\* against a BUY.
C5_Witness ==
    /\ Len(db.order_parts) >= 2
    /\ \E k \in 1..Len(db.order_parts) :
          \E i \in LinksOfPart(db, db.order_parts[k].order_part_id) :
              /\ db.order_links[i].order_id = db.orders[Len(db.orders)].order_id
              /\ db.orders[Len(db.orders)].order_type = SELL
    /\ \E k \in 1..Len(db.order_parts) :
          \E i \in LinksOfPart(db, db.order_parts[k].order_part_id) :
              /\ db.order_links[i].order_id = db.orders[2].order_id
              /\ db.orders[2].order_type = BUY
              /\ db.orders[1].order_type = SELL

\* The orders a part is linked to, as indices of db.orders.
OrdersOfPart(d, order_part_id) ==
    {i \in 1..Len(d.orders) :
        \E l \in LinksOfPart(d, order_part_id) :
            d.order_links[l].order_id = d.orders[i].order_id}

\* C6: a part is never created across the incoming order's limit.  Of the
\* orders a part is linked to, the incoming one is the one placed last; any
\* other is a resting order of the same item, of the opposite side, priced
\* at or below an incoming BUY and at or above an incoming SELL.
C6_WithinLimit ==
    \A k \in 1..Len(db.order_parts) :
        LET os == OrdersOfPart(db, db.order_parts[k].order_part_id)
        IN  \A a \in os : \A r \in os :
                r < a =>
                    LET incoming == db.orders[a]
                        resting == db.orders[r]
                    IN  /\ resting.item_id = incoming.item_id
                        /\ incoming.order_type = BUY =>
                              (resting.order_type = SELL
                                   /\ resting.price <= incoming.price)
                        /\ incoming.order_type = SELL =>
                              (resting.order_type = BUY
                                   /\ resting.price >= incoming.price)

\* The last call placed an order that was filled while an order of the
\* other side, of the same item but beyond its limit, was resting unfilled.
C6_Witness ==
    /\ Placed
    /\ Len(PartsCreated) > 0
    /\ \E i \in 1..Len(call.pre.orders) :
          LET other == call.pre.orders[i]
          IN  /\ other.item_id = PlacedOrder.item_id
              /\ other.order_type # PlacedOrder.order_type
              /\ Remaining(call.pre, other) > 0
              /\ IF PlacedOrder.order_type = BUY
                 THEN other.price > PlacedOrder.price
                 ELSE other.price < PlacedOrder.price

\* C7: every OrderPart has quantity > 0.
C7_PartQuantityPositive ==
    \A k \in 1..Len(db.order_parts) : db.order_parts[k].quantity > 0

\* C8: the quantities of the parts one place_order call creates sum to the
\* smaller of the incoming order's quantity and the sum of the remaining
\* quantities that the eligible resting orders had when the call began.
C8_TotalFilled ==
    Placed =>
        SumQuantity(PartsCreated) =
            Min(PlacedOrder.quantity,
                SumRemaining(call.pre, Eligible(call.pre, PlacedOrder)))

\* The last call filled two resting orders of the same price.
C8_Witness ==
    /\ Placed
    /\ Len(PartsCreated) = 2
    /\ PartsCreated[1].price = PartsCreated[2].price
    /\ PartsCreated[1].quantity > 0
    /\ PartsCreated[2].quantity > 0

\* C9: place_order appends the incoming order to the stored orders; when no
\* resting order is eligible it changes nothing else: the order rests OPEN
\* with all its quantity remaining, no part and no link is created and no
\* other order changes.
C9_RestsWhenNoMatch ==
    Placed =>
        /\ Len(db.orders) = Len(call.pre.orders) + 1
        /\ [db.orders[Len(db.orders)] EXCEPT !.order_status = OPEN] = PlacedOrder
        /\ Eligible(call.pre, PlacedOrder) = <<>> =>
              /\ db = [call.pre EXCEPT !.orders = Append(@, PlacedOrder)]
              /\ Remaining(db, PlacedOrder) = PlacedOrder.quantity

\* The last call placed an order while orders of the other side were
\* resting, none of them eligible: one of another item, one beyond the limit.
C9_Witness ==
    /\ Placed
    /\ Eligible(call.pre, PlacedOrder) = <<>>
    /\ \E i \in 1..Len(call.pre.orders) :
          /\ call.pre.orders[i].order_type # PlacedOrder.order_type
          /\ call.pre.orders[i].item_id # PlacedOrder.item_id
    /\ \E i \in 1..Len(call.pre.orders) :
          /\ call.pre.orders[i].order_type # PlacedOrder.order_type
          /\ call.pre.orders[i].item_id = PlacedOrder.item_id

\* C10: update_order_status called with an order_id that no stored order
\* has fails with NotFound and leaves the store unchanged.
C10_UpdateUnknownIdFails ==
    (call.op = "update_order_status" /\ ~HasOrder(call.pre, call.args[1])) =>
        /\ call.raised = "NotFound"
        /\ db = call.pre

\* The OrderParts linked to an order, in store order.
LinkedParts(d, order_id) ==
    SelectSeq(d.order_parts, LAMBDA part :
        \E i \in LinksOfPart(d, part.order_part_id) :
            d.order_links[i].order_id = order_id)

\* C11: get_order_remaining_quantity fails with an error when no stored
\* order has the order_id; otherwise it returns the order's quantity minus
\* the sum of the quantities of the parts linked to that order.
C11_RemainingQuantity ==
    call.op = "get_order_remaining_quantity" =>
        IF HasOrder(call.pre, call.args[1])
        THEN /\ call.raised = ""
             /\ call.value =
                    Some(call.pre.orders[IndexOf(call.pre, call.args[1])].quantity
                             - SumQuantity(LinkedParts(call.pre, call.args[1])))
        ELSE /\ call.raised # ""
             /\ call.value = None

\* The call was about a partly filled order, in a store that also holds a
\* part linked to other orders only.
C11_Witness ==
    /\ call.op = "get_order_remaining_quantity"
    /\ HasOrder(call.pre, call.args[1])
    /\ call.value # None
    /\ call.value[1] > 0
    /\ SumQuantity(LinkedParts(db, call.args[1])) > 0
    /\ Len(LinkedParts(db, call.args[1])) < Len(db.order_parts)

QueryOps == {"get_orders", "get_order_parts", "get_order_remaining_quantity"}

\* C12: get_orders, get_order_parts and get_order_remaining_quantity leave
\* the store as it was before the call.
C12_QueriesLeaveStore ==
    call.op \in QueryOps => db = call.pre

\* get_orders returned some of the stored orders, not all, from a store
\* that holds parts and links.
C12_Witness ==
    /\ call.op = "get_orders"
    /\ call.value # None
    /\ Len(call.value[1]) > 0
    /\ Len(call.value[1]) < Len(db.orders)
    /\ Len(db.order_links) > 0

\* C14: get_order_parts called with only order_part_id returns the part
\* with that id and no other (nothing if no part has it); called with only
\* order_id it returns the parts linked to that order and no other.
C14_PartsByIdOrByOrder ==
    call.op = "get_order_parts" =>
        LET order_id == call.args[1]
            order_part_id == call.args[2]
        IN  /\ (order_id = None /\ order_part_id # None) =>
                  call.value = Some(SelectSeq(call.pre.order_parts, LAMBDA part :
                                        part.order_part_id = order_part_id[1]))
            /\ (order_id # None /\ order_part_id = None) =>
                  call.value = Some(LinkedParts(call.pre, order_id[1]))

\* Of the orders a part is linked to, the one placed first (the resting
\* order of the fill) and the one placed last (the incoming order).
RestingOf(d, order_part_id) ==
    LET os == OrdersOfPart(d, order_part_id)
    IN  d.orders[CHOOSE r \in os : \A a \in os : r <= a]

IncomingOf(d, order_part_id) ==
    LET os == OrdersOfPart(d, order_part_id)
    IN  d.orders[CHOOSE a \in os : \A r \in os : r <= a]

\* C13: the price of every OrderPart is the price of the resting order of
\* its fill, whether the incoming order is a BUY or a SELL.
C13_PartAtRestingPrice ==
    \A k \in 1..Len(db.order_parts) :
        db.order_parts[k].price =
            RestingOf(db, db.order_parts[k].order_part_id).price

\* A BUY and a SELL were each filled against a resting order of another
\* price than their own.
C13_Witness ==
    \A type \in OrderType :
        \E k \in 1..Len(db.order_parts) :
            LET incoming == IncomingOf(db, db.order_parts[k].order_part_id)
                resting == RestingOf(db, db.order_parts[k].order_part_id)
            IN  /\ incoming.order_type = type
                /\ incoming.price # resting.price
                /\ db.order_parts[k].quantity > 0

\* The indices of the parts the last call appended.
NewParts == (Len(call.pre.order_parts) + 1)..Len(db.order_parts)

\* The last call linked a part it created to this order.
ReceivedFill(order) ==
    \E k \in NewParts :
        \E l \in LinksOfPart(db, db.order_parts[k].order_part_id) :
            db.order_links[l].order_id = order.order_id

\* C16: the eligible resting orders are taken in ascending price order,
\* equal prices in store order, for a BUY and for a SELL alike: the k-th
\* part of a place_order call goes to the k-th of them, and one receives a
\* fill only if all those before it have no quantity remaining after the call.
C16_AscendingPriceThenStoreOrder ==
    Placed =>
        LET cands == Eligible(call.pre, PlacedOrder)
            Before(i, j) ==
                \/ cands[i].price < cands[j].price
                \/ (cands[i].price = cands[j].price /\ i < j)
            Rank(j) == 1 + Cardinality({i \in 1..Len(cands) : Before(i, j)})
        IN  /\ \A j \in 1..Len(cands) :
                  ReceivedFill(cands[j]) =>
                      /\ \A i \in 1..Len(cands) :
                            Before(i, j) => Remaining(db, cands[i]) = 0
                      /\ Len(call.pre.order_parts) + Rank(j) \in NewParts
                      /\ RestingOf(db, db.order_parts[
                             Len(call.pre.order_parts) + Rank(j)].order_part_id)
                             = cands[j]
            /\ Cardinality(NewParts) <= Len(cands)

\* A SELL was placed against two eligible BUYs: the one placed later, at the
\* lower price, received a fill, and the one placed first, at the higher
\* price, received none.
C16_Witness ==
    /\ Placed
    /\ PlacedOrder.order_type = SELL
    /\ LET cands == Eligible(call.pre, PlacedOrder)
       IN  /\ Len(cands) = 2
           /\ cands[1].price > cands[2].price
           /\ ReceivedFill(cands[2])
           /\ ~ReceivedFill(cands[1])
           /\ Remaining(db, cands[1]) > 0

\* C17: the quantity of a stored order never changes: after place_order
\* every order stored before has the quantity it had, the incoming order is
\* stored with the quantity requested, also when it is filled in part (the
\* caller's Order object then holds the remaining quantity), and
\* get_order_remaining_quantity returns the requested quantity minus the fills.
C17_StoredQuantityKept ==
    Placed =>
        /\ \A i \in 1..Len(call.pre.orders) :
              db.orders[i].quantity = call.pre.orders[i].quantity
        /\ db.orders[Len(db.orders)].quantity = PlacedOrder.quantity
        /\ get_order_remaining_quantity(db, PlacedOrder.order_id) =
               PlacedOrder.quantity - SumQuantity(PartsCreated)
        /\ call.order[1].quantity =
               IF SumQuantity(PartsCreated) = PlacedOrder.quantity
               THEN PlacedOrder.quantity
               ELSE PlacedOrder.quantity - SumQuantity(PartsCreated)

\* The incoming order was filled in part: the caller's object holds less
\* than the stored order.
C17_Witness ==
    /\ Placed
    /\ SumQuantity(PartsCreated) > 0
    /\ SumQuantity(PartsCreated) < PlacedOrder.quantity
    /\ call.order[1].quantity < db.orders[Len(db.orders)].quantity

\* C19: place_order removes no order, part or link and changes no stored
\* part or link: the parts and the links stored before the call are a prefix
\* of those stored after it, and so are the order_ids of the orders.
C19_AppendOnly ==
    Placed =>
        /\ Len(db.orders) >= Len(call.pre.orders)
        /\ \A i \in 1..Len(call.pre.orders) :
              db.orders[i].order_id = call.pre.orders[i].order_id
        /\ Len(db.order_parts) >= Len(call.pre.order_parts)
        /\ SubSeq(db.order_parts, 1, Len(call.pre.order_parts))
               = call.pre.order_parts
        /\ Len(db.order_links) >= Len(call.pre.order_links)
        /\ SubSeq(db.order_links, 1, Len(call.pre.order_links))
               = call.pre.order_links

\* The last call appended a part to a store that already held one.
C19_Witness ==
    /\ Placed
    /\ Len(call.pre.order_parts) > 0
    /\ Len(db.order_parts) > Len(call.pre.order_parts)
    /\ Len(db.order_links) = Len(call.pre.order_links) + 2

\* C20: a place_order call for an order of one item links no part to an
\* order of another item and leaves the status and the remaining quantity of
\* every order of another item as they were.
C20_IsolatedPerItem ==
    Placed =>
        \A i \in 1..Len(call.pre.orders) :
            call.pre.orders[i].item_id # PlacedOrder.item_id =>
                /\ db.orders[i].order_status = call.pre.orders[i].order_status
                /\ Remaining(db, db.orders[i])
                       = Remaining(call.pre, call.pre.orders[i])
                /\ \A l \in (Len(call.pre.order_links) + 1)..Len(db.order_links) :
                      db.order_links[l].order_id # db.orders[i].order_id

\* The incoming order was filled while an order of the other side and of
\* another item, within its limit and with quantity remaining, was resting.
C20_Witness ==
    /\ Placed
    /\ SumQuantity(PartsCreated) > 0
    /\ \E i \in 1..Len(call.pre.orders) :
          LET other == call.pre.orders[i]
          IN  /\ other.item_id # PlacedOrder.item_id
              /\ other.order_type # PlacedOrder.order_type
              /\ Remaining(call.pre, other) > 0
              /\ IF PlacedOrder.order_type = BUY
                 THEN other.price <= PlacedOrder.price
                 ELSE other.price >= PlacedOrder.price

TaskOrderIds ==
    {tasks[t].order[1].order_id : t \in {u \in Tasks : tasks[u].order # None}}

\* Two concurrent calls read the same remaining quantity of this order.
ReadSameRemaining(order_id) ==
    \E t, u \in Tasks :
        /\ t # u
        /\ \E m \in 1..Len(tasks[t].reads), n \in 1..Len(tasks[u].reads) :
              /\ tasks[t].reads[m][1] = order_id
              /\ tasks[u].reads[n] = tasks[t].reads[m]

\* C15: when place_order calls are interleaved between store operations, an
\* order that was resting before them is filled beyond its quantity only if
\* two of the calls read the same remaining quantity of it; such a state is
\* reached.
C15_OverfillOnlyByStaleRead ==
    \A i \in 1..Len(db.orders) :
        (/\ db.orders[i].order_id \notin TaskOrderIds
         /\ Filled(db, db.orders[i].order_id) > db.orders[i].quantity)
            => ReadSameRemaining(db.orders[i].order_id)

\* Two interleaved calls read the same remaining quantity of a resting
\* order, and the quantities of the parts linked to it exceed its quantity.
C15_Witness ==
    \E i \in 1..Len(db.orders) :
        /\ db.orders[i].order_id \notin TaskOrderIds
        /\ ReadSameRemaining(db.orders[i].order_id)
        /\ Filled(db, db.orders[i].order_id) > db.orders[i].quantity

====
